---- MODULE Spec2Model ----
(***************************************************************************)
(* Trade aggregation of the ChartGrowth dashboard (utils/aggregationUtils). *)
(*                                                                         *)
(* aggregateTrades(trades, aggregationType) sorts a copy of the trades by  *)
(* time, groups them under a period key derived from the local calendar    *)
(* date, computes the statistics of each group and returns the groups in   *)
(* the order of their period strings.                                      *)
(*                                                                         *)
(* Numbers.  A JavaScript number is a binary floating-point value.  Trade  *)
(* sizes are whole numbers (Trade.Api's StockTrade.TradeSize is an int)    *)
(* and stay exact; prices and everything computed from them are modelled   *)
(* as binary floating-point values <<m, e>> = m * 2^e with MantBits        *)
(* significant bits (53 in the engine) and round-to-nearest-even.          *)
(*                                                                         *)
(* Time.  A timeStamp is an ISO-8601 UTC date-time; an instant is counted  *)
(* in hours since 1970-01-01T00:00Z (the engine counts milliseconds).  The *)
(* local time zone is a fixed offset of whole hours, tz.  A timeStamp with *)
(* a field out of range does not parse: its Date is an Invalid Date, whose *)
(* time and calendar fields are NaN.                                       *)
(*                                                                         *)
(* Strings.  A period key is a sequence of one-character strings.          *)
(***************************************************************************)
EXTENDS Integers, Sequences, FiniteSets, TLC

\* Longest trade list handed to aggregateTrades.
MaxTrades == 3

\* Significant bits of a floating-point number.
MantBits == 4

\* Longest JSON array the trades API answers with.
MaxItems == 2

\* Trades the mock backend generates (5000 in Initialize).
MaxCached == 3

\* Exchanges (a user message and its reply) of one chat.
MaxExchanges == 2

VARIABLES
    trades,           \* the caller's trade list (the argument of the call)
    tz,               \* local time zone: hours east of UTC
    pc,               \* "idle" | "returned" | "threw"
    aggregationType,  \* the granularity of the last call
    result,           \* the bucket list the last call returned
    displayType,      \* the granularity the labels were formatted for
    labels,           \* the display labels of the buckets of result
    fetchPc,          \* fetchTrades: "idle" | "awaitFetch" | "awaitJson" |
                      \*              "resolved" | "rejected"
    apiUrl,           \* the query parameters of the request, <<>> before it
    response,         \* how fetch(apiUrl) settled
    data,             \* how response.json() settled
    fetched,          \* the value the promise of fetchTrades resolved with
    aggregation,      \* App: the selected granularity
    aggregatedTrades, \* App: the buckets handed to the charts
    isLoading,        \* App: a fetch has been started and has not completed
    error,            \* App: the message shown, or null
    handlerPc,        \* handleFetchTrades: "idle" | "awaitFetchTrades"
    fetchesInFlight,  \* calls of handleFetchTrades that have not completed
    effectPending,    \* the effect on [trades, aggregation] has yet to run
    cells,            \* TreeMapChart: the leaves of the tree map drawn
    cachedTrades,     \* RandomTradesQueryable._cachedTrades
    query,            \* the parameters of the last query, <<>> before it
    queryResult,      \* the list the last query returned
    messages,         \* ChatPopup's messages
    message,          \* ChatPopup's message: the text of the input
    chatIsLoading,    \* ChatPopup's isLoading
    chatPc            \* handleSendMessage: "idle" | "fetch" | "json"

\* The state of the aggregator and of its caller.
aggVars == <<trades, tz, pc, aggregationType, result>>

\* The state of a consumer that labels the buckets.
displayVars == <<displayType, labels>>

\* The state of a call of fetchTrades.
fetchVars == <<fetchPc, apiUrl, response, data, fetched>>

\* The state of the App component, with trades.
dashVars ==
    <<aggregation, aggregatedTrades, isLoading, error, handlerPc, fetchesInFlight,
      effectPending>>

\* The state of the tree map.
chartVars == <<cells>>

\* The state of the mock backend.
backendVars == <<cachedTrades, query, queryResult>>

\* The state of the chat widget.
chatVars == <<messages, message, chatIsLoading, chatPc>>

\* The state of the components around the aggregator, its labels, the
\* fetch and the App.
outerVars == <<chartVars, backendVars, chatVars>>

vars == <<aggVars, displayVars, fetchVars, dashVars, outerVars>>

----------------------------------------------------------------------------
(* Floating point *)

RECURSIVE BitLen(_)
BitLen(n) == IF n = 0 THEN 0 ELSE 1 + BitLen(n \div 2)

Zero == [kind |-> "fin", m |-> 0, e |-> 0]
NaN == [kind |-> "nan", m |-> 0, e |-> 0]
Infinity == [kind |-> "inf", m |-> 0, e |-> 0]

\* The floating-point number nearest to n * 2^e (n >= 0), ties to even.
RoundToFloat(n, e) ==
    IF n = 0 THEN Zero
    ELSE LET len == BitLen(n) IN
         IF len <= MantBits
         THEN [kind |-> "fin", m |-> n * 2^(MantBits - len), e |-> e - (MantBits - len)]
         ELSE LET sh == len - MantBits
                  q == n \div 2^sh
                  r == n % 2^sh
                  half == 2^(sh - 1)
                  q2 == IF r > half \/ (r = half /\ q % 2 = 1) THEN q + 1 ELSE q
              IN IF q2 = 2^MantBits
                 THEN [kind |-> "fin", m |-> 2^(MantBits - 1), e |-> e + sh + 1]
                 ELSE [kind |-> "fin", m |-> q2, e |-> e + sh]

\* A whole number as a floating-point number.
FromInt(n) == RoundToFloat(n, 0)

\* a * b
FMul(a, b) ==
    IF a.kind = "nan" \/ b.kind = "nan" THEN NaN
    ELSE IF a.kind = "inf" \/ b.kind = "inf"
         THEN IF a = Zero \/ b = Zero THEN NaN ELSE Infinity
    ELSE RoundToFloat(a.m * b.m, a.e + b.e)

\* a + b
FAdd(a, b) ==
    IF a.kind = "nan" \/ b.kind = "nan" THEN NaN
    ELSE IF a.kind = "inf" \/ b.kind = "inf" THEN Infinity
    ELSE IF a = Zero THEN b
    ELSE IF b = Zero THEN a
    ELSE LET lo == IF a.e < b.e THEN a.e ELSE b.e
         IN RoundToFloat(a.m * 2^(a.e - lo) + b.m * 2^(b.e - lo), lo)

\* a / b
FDiv(a, b) ==
    IF a.kind = "nan" \/ b.kind = "nan" THEN NaN
    ELSE IF b.kind = "inf" THEN (IF a.kind = "inf" THEN NaN ELSE Zero)
    ELSE IF a.kind = "inf" THEN Infinity
    ELSE IF b = Zero THEN (IF a = Zero THEN NaN ELSE Infinity)
    ELSE IF a = Zero THEN Zero
    ELSE LET k == MantBits + 2
             q == (a.m * 2^k) \div b.m
             sticky == IF (a.m * 2^k) % b.m = 0 THEN 0 ELSE 1
         IN RoundToFloat(2 * q + sticky, a.e - b.e - k - 1)

----------------------------------------------------------------------------
(* Dates *)

\* A timeStamp: an ISO-8601 date-time in UTC, to the hour.
TimeStamp(y, mo, d, h) == [year |-> y, month |-> mo, day |-> d, hour |-> h]

\* Days from 1970-01-01 to the civil date y-mo-d (proleptic Gregorian).
DaysFromCivil(y, mo, d) ==
    LET y1 == IF mo <= 2 THEN y - 1 ELSE y
        era == y1 \div 400
        yoe == y1 - era * 400
        mp == IF mo > 2 THEN mo - 3 ELSE mo + 9
        doy == (153 * mp + 2) \div 5 + d - 1
        doe == yoe * 365 + yoe \div 4 - yoe \div 100 + doy
    IN era * 146097 + doe - 719468

\* The civil date of the day `days` after 1970-01-01.
CivilFromDays(days) ==
    LET z == days + 719468
        era == z \div 146097
        doe == z - era * 146097
        yoe == (doe - doe \div 1460 + doe \div 36524 - doe \div 146096) \div 365
        doy == doe - (365 * yoe + yoe \div 4 - yoe \div 100)
        mp == (5 * doy + 2) \div 153
        d == doy - (153 * mp + 2) \div 5 + 1
        mo == IF mp < 10 THEN mp + 3 ELSE mp - 9
        y == yoe + era * 400 + (IF mo <= 2 THEN 1 ELSE 0)
    IN [year |-> y, month |-> mo, day |-> d]

\* new Date(timeStamp).getTime(), in hours (of a timeStamp that parses).
getTime(ts) == DaysFromCivil(ts.year, ts.month, ts.day) * 24 + ts.hour

\* The date-time string parses: its month, day and hour are in range.
IsParseable(ts) == ts.month \in 1..12 /\ ts.day \in 1..31 /\ ts.hour \in 0..23

\* new Date(timeStamp): a Date holds a time value, or NaN (an Invalid Date).
NewDate(ts) ==
    IF IsParseable(ts) THEN [valid |-> TRUE, time |-> getTime(ts)]
    ELSE [valid |-> FALSE, time |-> 0]

\* The comparator of the sort by time, as the sort reads it: the difference
\* of the two times, and +0 when the difference is NaN.
CompareByTime(a, b) ==
    IF NewDate(a.timeStamp).valid /\ NewDate(b.timeStamp).valid
    THEN NewDate(a.timeStamp).time - NewDate(b.timeStamp).time
    ELSE 0

\* The local calendar date of an instant: getFullYear(), getMonth() + 1, getDate().
LocalDate(t, zone) == CivilFromDays((t + zone) \div 24)

\* The UTC calendar date of an instant, as toISOString() prints it.
UTCDate(t) == CivilFromDays(t \div 24)

\* new Date(year, month0, 1).getDay(): 0 is Sunday; 1970-01-01 was a Thursday.
FirstWeekday(year, month0) == (DaysFromCivil(year, month0 + 1, 1) + 4) % 7

----------------------------------------------------------------------------
(* Strings *)

Digits == <<"0", "1", "2", "3", "4", "5", "6", "7", "8", "9">>

\* Number.prototype.toString() of a whole number n >= 0.
RECURSIVE toString(_)
toString(n) ==
    IF n < 10 THEN <<Digits[n + 1]>> ELSE toString(n \div 10) \o <<Digits[(n % 10) + 1]>>

\* padStart with the fault of not padding.
padStartNone(s, len) == s

\* String.prototype.padStart(len, "0")
RECURSIVE padStart(_, _)
padStart(s, len) == IF Len(s) >= len THEN s ELSE padStart(<<"0">> \o s, len)

\* The collation order of the characters of a period key.
Alphabet ==
    <<"-", "0", "1", "2", "3", "4", "5", "6", "7", "8", "9", "a", "N", "Q", "W">>

Ord(c) == CHOOSE i \in 1..Len(Alphabet) : Alphabet[i] = c

\* a.localeCompare(b): negative, zero or positive.
RECURSIVE localeCompare(_, _)
localeCompare(a, b) ==
    IF a = <<>> THEN (IF b = <<>> THEN 0 ELSE -1)
    ELSE IF b = <<>> THEN 1
    ELSE IF Ord(Head(a)) < Ord(Head(b)) THEN -1
    ELSE IF Ord(Head(a)) > Ord(Head(b)) THEN 1
    ELSE localeCompare(Tail(a), Tail(b))

----------------------------------------------------------------------------
(* The aggregator *)

\* The granularities of the type, and a value outside it (the type is erased
\* at run time, so any string can reach the switch statements).
Granularities == {"Daily", "Weekly", "Monthly", "Quarterly"}
AggregationTypes == Granularities \cup {"Hourly"}

\* StockTradeData
Trade(ts, size, price, symbol) ==
    [timeStamp |-> ts, tradeSize |-> size, price |-> price, symbol |-> symbol]

getPeriodLengthInDays(g) ==
    CASE g = "Daily" -> 1
      [] g = "Weekly" -> 7
      [] g = "Monthly" -> 30
      [] g = "Quarterly" -> 91
      [] OTHER -> 1

\* YYYY-MM-DD of a calendar date.
IsoDay(c) ==
    toString(c.year) \o <<"-">> \o padStart(toString(c.month), 2)
        \o <<"-">> \o padStart(toString(c.day), 2)

\* CeilDiv with the fault of rounding down: Math.floor(a / b).
FloorDiv(a, b) == a \div b

\* Math.ceil(a / b) for whole a >= 0, b > 0.
CeilDiv(a, b) == (a + b - 1) \div b

\* NaN in a template literal, and NaN.toString().
NaNString == <<"N", "a", "N">>

\* What stands for the key when toISOString() throws (the date is invalid).
RangeError == <<"RangeError">>

\* The key of an Invalid Date: every getter returns NaN, arithmetic on NaN
\* is NaN, and toISOString() throws a RangeError.
InvalidDateKey(g) ==
    CASE g = "Daily" ->
            NaNString \o <<"-">> \o padStart(NaNString, 2) \o <<"-">> \o padStart(NaNString, 2)
      [] g = "Weekly" -> NaNString \o <<"-", "W">> \o NaNString \o <<"-">> \o NaNString
      [] g = "Monthly" -> NaNString \o <<"-">> \o padStart(NaNString, 2)
      [] g = "Quarterly" -> NaNString \o <<"-", "Q">> \o NaNString
      [] OTHER -> RangeError

\* getPeriodKey with the fault of taking the quarter from the 1-based month:
\* Math.floor((date.getMonth() + 1) / 3) + 1.
getPeriodKeyQuarterOff(date, g) ==
    IF ~date.valid THEN InvalidDateKey(g)
    ELSE
    LET local == LocalDate(date.time, tz)
        year == local.year
    IN CASE g = "Daily" -> IsoDay(local)
         [] g = "Weekly" ->
              LET weekNumber == CeilDiv(local.day + FirstWeekday(year, local.month - 1), 7)
              IN toString(year) \o <<"-", "W">> \o toString(weekNumber)
                     \o <<"-">> \o toString(local.month)
         [] g = "Monthly" -> toString(year) \o <<"-">> \o padStart(toString(local.month), 2)
         [] g = "Quarterly" ->
              LET quarter == (local.month \div 3) + 1
              IN toString(year) \o <<"-", "Q">> \o toString(quarter)
         [] OTHER -> IsoDay(UTCDate(date.time))

\* getPeriodKey with the fault of leaving the month out of the Weekly key.
getPeriodKeyWeekOnly(date, g) ==
    IF ~date.valid THEN InvalidDateKey(g)
    ELSE
    LET local == LocalDate(date.time, tz)
        year == local.year
    IN CASE g = "Daily" -> IsoDay(local)
         [] g = "Weekly" ->
              LET weekNumber == CeilDiv(local.day + FirstWeekday(year, local.month - 1), 7)
              IN toString(year) \o <<"-", "W">> \o toString(weekNumber)
         [] g = "Monthly" -> toString(year) \o <<"-">> \o padStart(toString(local.month), 2)
         [] g = "Quarterly" ->
              LET quarter == ((local.month - 1) \div 3) + 1
              IN toString(year) \o <<"-", "Q">> \o toString(quarter)
         [] OTHER -> IsoDay(UTCDate(date.time))

\* The key of the period the Date `date` falls in.
getPeriodKey(date, g) ==
    IF ~date.valid THEN InvalidDateKey(g)
    ELSE
    LET local == LocalDate(date.time, tz)
        year == local.year
    IN CASE g = "Daily" -> IsoDay(local)
         [] g = "Weekly" ->
              LET weekNumber == CeilDiv(local.day + FirstWeekday(year, local.month - 1), 7)
              IN toString(year) \o <<"-", "W">> \o toString(weekNumber)
                     \o <<"-">> \o toString(local.month)
         [] g = "Monthly" -> toString(year) \o <<"-">> \o padStart(toString(local.month), 2)
         [] g = "Quarterly" ->
              LET quarter == ((local.month - 1) \div 3) + 1
              IN toString(year) \o <<"-", "Q">> \o toString(quarter)
         [] OTHER -> IsoDay(UTCDate(date.time))

\* The index of the entry of tradesByPeriod with the given key, 0 when none.
IndexOfKey(tradesByPeriod, key) ==
    IF \E i \in 1..Len(tradesByPeriod) : tradesByPeriod[i].period = key
    THEN CHOOSE i \in 1..Len(tradesByPeriod) : tradesByPeriod[i].period = key
    ELSE 0

\* PushTrade with the fault of assigning where it should push: a trade whose
\* key is already present replaces the list under that key.
PushTradeOverwrite(tradesByPeriod, trade, g) ==
    LET periodKey == getPeriodKey(NewDate(trade.timeStamp), g)
        i == IndexOfKey(tradesByPeriod, periodKey)
    IN IF i = 0
       THEN Append(tradesByPeriod, [period |-> periodKey, trades |-> <<trade>>])
       ELSE [tradesByPeriod EXCEPT ![i].trades = <<trade>>]

\* One step of the forEach of groupTradesByPeriod: the trade is pushed onto
\* the list under its key, which is created (last in the object's property
\* order) when the key is new.
PushTrade(tradesByPeriod, trade, g) ==
    LET periodKey == getPeriodKey(NewDate(trade.timeStamp), g)
        i == IndexOfKey(tradesByPeriod, periodKey)
    IN IF i = 0
       THEN Append(tradesByPeriod, [period |-> periodKey, trades |-> <<trade>>])
       ELSE [tradesByPeriod EXCEPT ![i].trades = Append(@, trade)]

\* Record<string, StockTradeData[]> as the sequence of its entries in
\* property order (no period key is an array index, so insertion order).
RECURSIVE GroupFrom(_, _, _)
GroupFrom(tradesByPeriod, rest, g) ==
    IF rest = <<>> THEN tradesByPeriod
    ELSE GroupFrom(PushTrade(tradesByPeriod, Head(rest), g), Tail(rest), g)

\* groupTradesByPeriod with the fault of a loop that starts at the second
\* trade.
groupTradesByPeriodFromSecond(sortedTrades, periodLength, g) ==
    GroupFrom(<<>>, Tail(sortedTrades), g)

groupTradesByPeriod(sortedTrades, periodLength, g) == GroupFrom(<<>>, sortedTrades, g)

\* Array.prototype.sort is stable: x goes after every element that does not
\* compare greater than it.
RECURSIVE InsertByTime(_, _)
InsertByTime(sorted, x) ==
    IF sorted = <<>> THEN <<x>>
    ELSE LET last == sorted[Len(sorted)]
         IN IF CompareByTime(last, x) > 0
            THEN Append(InsertByTime(SubSeq(sorted, 1, Len(sorted) - 1), x), last)
            ELSE Append(sorted, x)

\* The sort with the fault of leaving the list as it is.
SortByTimeNone(s) == s

\* [...trades].sort((a, b) => time(a) - time(b))
RECURSIVE SortByTime(_)
SortByTime(s) ==
    IF s = <<>> THEN <<>>
    ELSE InsertByTime(SortByTime(SubSeq(s, 1, Len(s) - 1)), s[Len(s)])

RECURSIVE InsertByPeriod(_, _)
InsertByPeriod(sorted, x) ==
    IF sorted = <<>> THEN <<x>>
    ELSE LET last == sorted[Len(sorted)]
         IN IF localeCompare(last.period, x.period) > 0
            THEN Append(InsertByPeriod(SubSeq(sorted, 1, Len(sorted) - 1), x), last)
            ELSE Append(sorted, x)

\* buckets.sort((a, b) => a.period.localeCompare(b.period))
RECURSIVE SortByPeriod(_)
SortByPeriod(s) ==
    IF s = <<>> THEN <<>>
    ELSE InsertByPeriod(SortByPeriod(SubSeq(s, 1, Len(s) - 1)), s[Len(s)])

\* SumTradeSize with the fault of a reducer that drops its accumulator:
\* (sum, trade) => trade.tradeSize.
SumTradeSizeLast(ts) == IF ts = <<>> THEN 0 ELSE ts[Len(ts)].tradeSize

\* trades.reduce((sum, trade) => sum + trade.tradeSize, 0)
RECURSIVE SumTradeSize(_)
SumTradeSize(ts) ==
    IF ts = <<>> THEN 0
    ELSE SumTradeSize(SubSeq(ts, 1, Len(ts) - 1)) + ts[Len(ts)].tradeSize

\* WeightedPriceSum with the fault of leaving out the weight:
\* (sum, trade) => sum + trade.price.
RECURSIVE UnweightedPriceSum(_)
UnweightedPriceSum(ts) ==
    IF ts = <<>> THEN Zero
    ELSE FAdd(UnweightedPriceSum(SubSeq(ts, 1, Len(ts) - 1)), ts[Len(ts)].price)

\* trades.reduce((sum, trade) => sum + trade.price * trade.tradeSize, 0)
RECURSIVE WeightedPriceSum(_)
WeightedPriceSum(ts) ==
    IF ts = <<>> THEN Zero
    ELSE FAdd(WeightedPriceSum(SubSeq(ts, 1, Len(ts) - 1)),
              FMul(ts[Len(ts)].price, FromInt(ts[Len(ts)].tradeSize)))

\* AveragePrice with the fault of a guard that lets zero through:
\* totalTradeSize >= 0 ? weightedPriceSum / totalTradeSize : 0.
AveragePriceUnguarded(weightedPriceSum, totalTradeSize) ==
    IF totalTradeSize >= 0 THEN FDiv(weightedPriceSum, FromInt(totalTradeSize)) ELSE Zero

\* totalTradeSize > 0 ? weightedPriceSum / totalTradeSize : 0
AveragePrice(weightedPriceSum, totalTradeSize) ==
    IF totalTradeSize > 0 THEN FDiv(weightedPriceSum, FromInt(totalTradeSize)) ELSE Zero

\* CountSymbol with the fault of not reading the old count:
\* symbols[trade.symbol] = 1.
CountSymbolOnce(symbols, symbol) ==
    [s \in DOMAIN symbols \cup {symbol} |-> IF s = symbol THEN 1 ELSE symbols[s]]

\* symbols[trade.symbol] = (symbols[trade.symbol] || 0) + 1
CountSymbol(symbols, symbol) ==
    IF symbol \in DOMAIN symbols
    THEN [symbols EXCEPT ![symbol] = @ + 1]
    ELSE [s \in DOMAIN symbols \cup {symbol} |-> IF s = symbol THEN 1 ELSE symbols[s]]

RECURSIVE SymbolCounts(_)
SymbolCounts(ts) ==
    IF ts = <<>> THEN [s \in {} |-> 0]
    ELSE CountSymbol(SymbolCounts(SubSeq(ts, 1, Len(ts) - 1)), ts[Len(ts)].symbol)

\* The AggregatedTradeData of one entry of tradesByPeriod.
Bucket(entry) ==
    LET totalTradeSize == SumTradeSize(entry.trades)
    IN [period |-> entry.period,
        totalTradeSize |-> totalTradeSize,
        averagePrice |-> AveragePrice(WeightedPriceSum(entry.trades), totalTradeSize),
        tradeCount |-> Len(entry.trades),
        symbols |-> SymbolCounts(entry.trades)]

\* calculateAggregatedData with the fault of leaving out the final sort.
calculateAggregatedDataUnsorted(tradesByPeriod) ==
    [i \in 1..Len(tradesByPeriod) |-> Bucket(tradesByPeriod[i])]

calculateAggregatedData(tradesByPeriod) ==
    SortByPeriod([i \in 1..Len(tradesByPeriod) |-> Bucket(tradesByPeriod[i])])

\* aggregateTrades with the fault of answering an empty list with one
\* bucket of no trades instead of no bucket.
aggregateTradesPlaceholder(ts, g) ==
    IF Len(ts) = 0 THEN <<Bucket([period |-> <<>>, trades |-> <<>>])>>
    ELSE LET sortedTrades == SortByTime(ts)
             periodLength == getPeriodLengthInDays(g) * 24
             tradesByPeriod == groupTradesByPeriod(sortedTrades, periodLength, g)
         IN calculateAggregatedData(tradesByPeriod)

aggregateTrades(ts, g) ==
    IF Len(ts) = 0 THEN <<>>
    ELSE LET sortedTrades == SortByTime(ts)
             periodLength == getPeriodLengthInDays(g) * 24
             tradesByPeriod == groupTradesByPeriod(sortedTrades, periodLength, g)
         IN calculateAggregatedData(tradesByPeriod)

\* aggregateTradesThrows with the fault the code does not have: a check of
\* every timeStamp that throws on one that does not parse.
aggregateTradesValidates(ts, g) ==
    \E i \in 1..Len(ts) : ~NewDate(ts[i].timeStamp).valid

\* The call ends with an exception instead of a value: past the guard for the
\* empty list, the computation of some trade's key throws.  Nothing in
\* aggregateTrades catches it.
aggregateTradesThrows(ts, g) ==
    /\ Len(ts) # 0
    /\ \E i \in 1..Len(ts) : getPeriodKey(NewDate(ts[i].timeStamp), g) = RangeError

\* The argument array with the fault of sorting it in place:
\* trades.sort(...) instead of [...trades].sort(...).
tradesSortedInPlace(ts) == SortByTime(ts)

\* The caller's array after the call: sort() reorders the array it is called
\* on, which is the copy [...trades], so the argument is as it was.
tradesAfterCall(ts) == ts

----------------------------------------------------------------------------
(* The trade data source: fetchTrades *)

\* The settlements of fetch(apiUrl) and of response.json() before they
\* happen.
NoResponse == [kind |-> "none", ok |-> FALSE, status |-> 0]
NoData == [kind |-> "none", items |-> <<>>]

\* The string "" where a timeStamp is expected: no field of it holds a
\* number, and it does not parse.
EmptyString == TimeStamp(0, 0, 0, 0)

\* Items of the API's JSON array, which name the time of the trade
\* timestamp (what Trade.Api serialises), Timestamp or timeStamp: one item
\* for each name, one with two of the names, and one whose timestamp is
\* the empty string.
RawItems ==
    { [id |-> 1, timestamp |-> TimeStamp(2024, 1, 10, 15), tradeSize |-> 1,
       price |-> FromInt(5), symbol |-> "AAPL"],
      [id |-> 2, Timestamp |-> TimeStamp(2024, 1, 15, 15), tradeSize |-> 3,
       price |-> FromInt(7), symbol |-> "MSFT"],
      [id |-> 3, timeStamp |-> TimeStamp(2024, 2, 1, 15), tradeSize |-> 1,
       price |-> FromInt(5), symbol |-> "AAPL"],
      [id |-> 4, timestamp |-> TimeStamp(2024, 1, 10, 15),
       timeStamp |-> TimeStamp(2024, 2, 1, 15), tradeSize |-> 1,
       price |-> FromInt(5), symbol |-> "AAPL"],
      [id |-> 5, timestamp |-> EmptyString, Timestamp |-> TimeStamp(2024, 1, 15, 15),
       tradeSize |-> 3, price |-> FromInt(7), symbol |-> "MSFT"] }

\* The bodies of an answer: text that is not JSON, a JSON object, and the
\* JSON arrays of at most MaxItems items.
Bodies ==
    { [kind |-> "invalid", items |-> <<>>], [kind |-> "object", items |-> <<>>] }
    \cup { [kind |-> "array", items |-> items] :
              items \in UNION { [1..n -> RawItems] : n \in 0..MaxItems } }

\* The value of item[name] is truthy: the property exists and is not the
\* empty string.
Truthy(item, name) == name \in DOMAIN item /\ item[name] # EmptyString

\* The expression with the fault of trying timeStamp first.
TimeStampOfCamelFirst(item) ==
    IF Truthy(item, "timeStamp") THEN item.timeStamp
    ELSE IF Truthy(item, "Timestamp") THEN item.Timestamp
    ELSE IF "timestamp" \in DOMAIN item THEN item.timestamp
    ELSE "undefined"

\* item.timestamp || item.Timestamp || item.timeStamp: a || b is a when a
\* is truthy and b otherwise.
TimeStampOf(item) ==
    IF Truthy(item, "timestamp") THEN item.timestamp
    ELSE IF Truthy(item, "Timestamp") THEN item.Timestamp
    ELSE IF "timeStamp" \in DOMAIN item THEN item.timeStamp
    ELSE "undefined"

\* data.map(item => ({id, timeStamp, tradeSize, price, symbol}))
validatedData(items) ==
    [i \in 1..Len(items) |->
        [id |-> items[i].id,
         timeStamp |-> TimeStampOf(items[i]),
         tradeSize |-> items[i].tradeSize,
         price |-> items[i].price,
         symbol |-> items[i].symbol]]

\* The catch block: whatever was thrown inside the try, the promise of
\* fetchTrades resolves with an empty array.
catchBlock == [state |-> "resolved", value |-> <<>>]

\* The return at the end of the try block.
returnValidated(items) == [state |-> "resolved", value |-> validatedData(items)]

----------------------------------------------------------------------------
(* The dashboard: App *)

\* The value null of error.
null == "null"

NoTradesFound == "No trades found for the specified criteria"
FailedToFetch == "Failed to fetch trades"

\* The effect with the fault of aggregating by day whatever is selected.
reaggregateDaily(ts, agg) ==
    IF Len(ts) > 0 THEN aggregateTrades(ts, "Daily") ELSE <<>>

\* The value the effect on [trades, aggregation] sets aggregatedTrades to.
reaggregate(ts, agg) ==
    IF Len(ts) > 0 THEN aggregateTrades(ts, agg) ELSE <<>>

\* The branch on fetchedTrades with the fault of always calling setTrades.
onFetchedAlwaysSet(fetchedTrades, held) ==
    IF Len(fetchedTrades) = 0
    THEN [error |-> NoTradesFound, trades |-> fetchedTrades, setTrades |-> TRUE]
    ELSE [error |-> null, trades |-> fetchedTrades, setTrades |-> TRUE]

\* What handleFetchTrades sets once fetchTrades has resolved with
\* fetchedTrades, held being the trades of the App: an error, or the
\* trades.
onFetched(fetchedTrades, held) ==
    IF Len(fetchedTrades) = 0
    THEN [error |-> NoTradesFound, trades |-> held, setTrades |-> FALSE]
    ELSE [error |-> null, trades |-> fetchedTrades, setTrades |-> TRUE]

\* The fetch button with the fault of never being disabled.
FetchButtonEnabledAlways == FALSE

\* The fetch button is disabled: disabled={isLoading}.
FetchButtonDisabled == isLoading

----------------------------------------------------------------------------
(* The tree map: TreeMapChart *)

\* String.prototype.includes(sub)
includes(s, sub) ==
    \E a \in 1..(Len(s) - Len(sub) + 1) : SubSeq(s, a, a + Len(sub) - 1) = sub

\* The optional prop rawTrades when it is not passed, and when it is.
NoRawTrades == [defined |-> FALSE, trades |-> <<>>]
RawTrades(ts) == [defined |-> TRUE, trades |-> ts]

\* The data the tree map is built from: the prop data itself, or the
\* quarterly aggregation of rawTrades when they are passed, are not empty,
\* and the first period of data holds no Q.
quarterlyData(chartData, rawTrades) ==
    IF rawTrades.defined /\ Len(rawTrades.trades) > 0
    THEN LET isQuarterly == Len(chartData) > 0 /\ includes(chartData[1].period, <<"Q">>)
         IN IF ~isQuarterly THEN aggregateTrades(rawTrades.trades, "Quarterly")
            ELSE chartData
    ELSE chartData

\* The leaves of the tree map: one for each symbol of each item, with the
\* item's size shared equally among its symbols.
treeMapData(items) ==
    { [symbol |-> symbol,
       count |-> items[i].symbols[symbol],
       period |-> items[i].period,
       totalSize |-> FDiv(FromInt(items[i].totalTradeSize),
                          FromInt(Cardinality(DOMAIN items[i].symbols))),
       totalPrice |-> FMul(items[i].averagePrice, FromInt(items[i].symbols[symbol]))] :
        <<i, symbol>> \in { <<j, sym>> \in (1..Len(items)) \X {"AAPL", "MSFT"} :
                              sym \in DOMAIN items[j].symbols } }

----------------------------------------------------------------------------
(* The mock backend: RandomTradesQueryable, TradesService *)

\* A StockTrade.  Timestamp is a DateTime, compared by its ticks; the model
\* counts ticks in small whole numbers.
StockTrade(id, timestamp, size) ==
    [Id |-> id, Timestamp |-> timestamp, TradeSize |-> size,
     Price |-> 175, Symbol |-> "AAPL"]

RECURSIVE InsertByTimestamp(_, _)
InsertByTimestamp(sorted, x) ==
    IF sorted = <<>> THEN <<x>>
    ELSE LET last == sorted[Len(sorted)]
         IN IF last.Timestamp > x.Timestamp
            THEN Append(InsertByTimestamp(SubSeq(sorted, 1, Len(sorted) - 1), x), last)
            ELSE Append(sorted, x)

\* Enumerable.OrderBy(t => t.Timestamp): a stable sort.
RECURSIVE OrderByTimestamp(_)
OrderByTimestamp(list) ==
    IF list = <<>> THEN <<>>
    ELSE InsertByTimestamp(OrderByTimestamp(SubSeq(list, 1, Len(list) - 1)), list[Len(list)])

\* QueryTrades with the fault of leaving out the test of the size.
QueryTradesAnySize(cache, startTimestamp, minQuoteSize) ==
    OrderByTimestamp(SelectSeq(cache, LAMBDA t : t.Timestamp >= startTimestamp))

\* RandomTradesQueryable.QueryTrades: Where is SelectSeq.
QueryTrades(cache, startTimestamp, minQuoteSize) ==
    OrderByTimestamp(SelectSeq(cache, LAMBDA t : /\ t.Timestamp >= startTimestamp
                                                 /\ t.TradeSize >= minQuoteSize))

\* TradesService.GetTradesAsync
GetTradesAsync(cache, startTimestamp, minQuoteSize) ==
    QueryTrades(cache, startTimestamp, minQuoteSize)

----------------------------------------------------------------------------
(* The chat widget: ChatPopup *)

\* A text the widget inspects character by character (the input) is a
\* sequence of one-character strings; a text it only passes along (a reply)
\* is a string.  The timestamp of a message is the wall clock, which only
\* the rendering reads; it is left out.

\* String.prototype.trim(), for the space as white space.
RECURSIVE trimStart(_)
trimStart(s) == IF s # <<>> /\ Head(s) = " " THEN trimStart(Tail(s)) ELSE s

RECURSIVE trimEnd(_)
trimEnd(s) ==
    IF s # <<>> /\ s[Len(s)] = " " THEN trimEnd(SubSeq(s, 1, Len(s) - 1)) ELSE s

trim(s) == trimEnd(trimStart(s))

UpperCase ==
    <<"A", "B", "C", "D", "E", "F", "G", "H", "I", "J", "K", "L", "M",
      "N", "O", "P", "Q", "R", "S", "T", "U", "V", "W", "X", "Y", "Z">>

LowerCase ==
    <<"a", "b", "c", "d", "e", "f", "g", "h", "i", "j", "k", "l", "m",
      "n", "o", "p", "q", "r", "s", "t", "u", "v", "w", "x", "y", "z">>

\* String.prototype.toLowerCase().
toLowerCase(s) ==
    [i \in 1..Len(s) |->
        IF \E k \in 1..Len(UpperCase) : UpperCase[k] = s[i]
        THEN LowerCase[CHOOSE k \in 1..Len(UpperCase) : UpperCase[k] = s[i]]
        ELSE s[i]]

SavesTime == "Saves Time: Adroit's EMS consolidates market data, orders, and analytics into a single dashboard."
BoostsDecisionMaking == "Boosts Decision-Making: Our platform provides real-time data from multiple sources."
SimplifiesComplexity == "Simplifies Complexity: Fixed-income assets, particularly OTC derivatives, can be extremely complex."
Customizable == "Customizable: Our open APIs allow firms to customize the platform to their specific needs."
ReducesRisk == "Reduces Risk: The system continuously monitors trading risks."
Overview == "Adroit's EMS transforms trading operations in several key ways"

\* The canned replies with the phrases that select them, in the order
\* generateTradingResponse tries them.
CannedReplies ==
    << [phrases |-> { <<"s", "a", "v", "e", " ", "t", "i", "m", "e">>,
                      <<"t", "i", "m", "e", " ", "s", "a", "v", "i", "n", "g">>,
                      <<"e", "f", "f", "i", "c", "i", "e", "n", "c", "y">> },
        reply |-> SavesTime],
       [phrases |-> { <<"d", "e", "c", "i", "s", "i", "o", "n">>,
                      <<"d", "e", "c", "i", "s", "i", "o", "n", "s">>,
                      <<"d", "e", "c", "i", "d", "e">> },
        reply |-> BoostsDecisionMaking],
       [phrases |-> { <<"c", "o", "m", "p", "l", "e", "x">>,
                      <<"s", "i", "m", "p", "l", "i", "f", "y">>,
                      <<"c", "o", "m", "p", "l", "i", "c", "a", "t", "e", "d">> },
        reply |-> SimplifiesComplexity],
       [phrases |-> { <<"c", "u", "s", "t", "o", "m">>,
                      <<"t", "a", "i", "l", "o", "r">>,
                      <<"a", "p", "i">> },
        reply |-> Customizable],
       [phrases |-> { <<"r", "i", "s", "k">>,
                      <<"c", "o", "m", "p", "l", "i", "a", "n", "c", "e">>,
                      <<"r", "e", "g", "u", "l", "a", "t", "e">> },
        reply |-> ReducesRisk],
       [phrases |-> { <<"o", "v", "e", "r", "v", "i", "e", "w">>,
                      <<"a", "l", "l", " ", "b", "e", "n", "e", "f", "i", "t", "s">>,
                      <<"s", "u", "m", "m", "a", "r", "y">> },
        reply |-> Overview] >>

\* The canned reply to a query, null when no phrase occurs in it.
generateTradingResponse(chatQuery) ==
    LET lowerQuery == toLowerCase(chatQuery)
        matching == {k \in 1..Len(CannedReplies) :
                        \E phrase \in CannedReplies[k].phrases :
                            includes(lowerQuery, phrase)}
    IN IF matching = {} THEN null
       ELSE CannedReplies[CHOOSE k \in matching : \A other \in matching : k <= other].reply

\* The first message of the conversation.
Greeting ==
    [role |-> "assistant",
     content |-> "Hi! I'm Adroit's trading platform assistant."]

Apology == "I apologize, but I'm having trouble connecting right now. Please try again later or contact us directly."

userMessage(userMessageText) == [role |-> "user", content |-> userMessageText]

\* The assistant message made of a canned reply.
localMessage(localResponse) == [role |-> "assistant", content |-> localResponse]

\* The assistant message made of the API's answer.
apiMessage(body) ==
    [role |-> "assistant", content |-> body.message,
     includeContactButton |-> body.suggestsConsultation]

errorMessage == [role |-> "assistant", content |-> Apology]

\* handleSendMessage with the fault of sending a blank input.
EarlyReturnLoadingOnly(text, loading) == loading

\* The early return of handleSendMessage.
EarlyReturn(text, loading) == trim(text) = <<>> \/ loading

----------------------------------------------------------------------------
(* Display labels: formatPeriodForDisplay *)

\* String.prototype.split(sep) for a separator of one character.
RECURSIVE split(_, _)
split(s, sep) ==
    IF s = <<>> THEN << <<>> >>
    ELSE LET rest == split(Tail(s), sep)
         IN IF Head(s) = sep
            THEN << <<>> >> \o rest
            ELSE << <<Head(s)>> \o Head(rest) >> \o Tail(rest)

\* String.prototype.substring(start)
substring(s, start) == SubSeq(s, start + 1, Len(s))

\* What a template literal prints for undefined.
UndefinedString == <<"u", "n", "d", "e", "f", "i", "n", "e", "d">>

\* The i-th (0-based) name of an array destructuring: undefined when the
\* array is shorter.
Destructured(parts, i) ==
    IF i < Len(parts) THEN [defined |-> TRUE, s |-> parts[i + 1]]
    ELSE [defined |-> FALSE, s |-> UndefinedString]

\* The longest prefix of s made of decimal digits.
RECURSIVE LeadingDigits(_)
LeadingDigits(s) ==
    IF s = <<>> \/ \A d \in 1..10 : Digits[d] # Head(s) THEN <<>>
    ELSE <<Head(s)>> \o LeadingDigits(Tail(s))

\* The number a string of decimal digits denotes.
RECURSIVE DigitsValue(_)
DigitsValue(s) ==
    IF s = <<>> THEN 0
    ELSE 10 * DigitsValue(SubSeq(s, 1, Len(s) - 1))
         + ((CHOOSE d \in 1..10 : Digits[d] = s[Len(s)]) - 1)

\* parseInt(s): the whole number s begins with, NaN when it begins with none.
parseInt(s) ==
    LET digits == LeadingDigits(s)
    IN IF digits = <<>> THEN [isNaN |-> TRUE, n |-> 0]
       ELSE [isNaN |-> FALSE, n |-> DigitsValue(digits)]

monthNames ==
    << <<"J", "a", "n">>, <<"F", "e", "b">>, <<"M", "a", "r">>, <<"A", "p", "r">>,
       <<"M", "a", "y">>, <<"J", "u", "n">>, <<"J", "u", "l">>, <<"A", "u", "g">>,
       <<"S", "e", "p">>, <<"O", "c", "t">>, <<"N", "o", "v">>, <<"D", "e", "c">> >>

\* The text of monthNames[index] in a template literal, for an index that
\* is a number or NaN: undefined outside the array.
MonthNameAt(isNaN, index) ==
    IF ~isNaN /\ index \in 0..(Len(monthNames) - 1) THEN monthNames[index + 1]
    ELSE UndefinedString

\* The Weekly branch: `${year} Week ${weekPart.substring(1)} (Month ${month})`
FormatWeekly(periodKey) ==
    LET parts == split(periodKey, "-")
    IN Destructured(parts, 0).s \o <<" ", "W", "e", "e", "k", " ">>
           \o substring(Destructured(parts, 1).s, 1)
           \o <<" ", "(", "M", "o", "n", "t", "h", " ">>
           \o Destructured(parts, 2).s \o <<")">>

\* The Monthly branch with the fault of indexing monthNames by the 1-based
\* month.
FormatMonthlyOffByOne(periodKey) ==
    LET parts == split(periodKey, "-")
        month == parseInt(Destructured(parts, 1).s)
    IN MonthNameAt(month.isNaN, month.n) \o <<" ">> \o Destructured(parts, 0).s

\* The Monthly branch: `${monthNames[parseInt(monthM) - 1]} ${yearM}`
FormatMonthly(periodKey) ==
    LET parts == split(periodKey, "-")
        month == parseInt(Destructured(parts, 1).s)
    IN MonthNameAt(month.isNaN, month.n - 1) \o <<" ">> \o Destructured(parts, 0).s

\* The Quarterly branch with the fault of leaving out the quarter.
FormatQuarterlyYearOnly(periodKey) ==
    Destructured(split(periodKey, "-"), 0).s

\* The Quarterly branch: `${yearQ} ${quarterQ}`
FormatQuarterly(periodKey) ==
    LET parts == split(periodKey, "-")
    IN Destructured(parts, 0).s \o <<" ">> \o Destructured(parts, 1).s

formatPeriodForDisplay(periodKey, g) ==
    CASE g = "Daily" -> periodKey
      [] g = "Weekly" -> FormatWeekly(periodKey)
      [] g = "Monthly" -> FormatMonthly(periodKey)
      [] g = "Quarterly" -> FormatQuarterly(periodKey)
      [] OTHER -> periodKey

\* weekPart.substring throws a TypeError when the key has no second part.
formatPeriodForDisplayThrows(periodKey, g) ==
    g = "Weekly" /\ ~Destructured(split(periodKey, "-"), 1).defined

----------------------------------------------------------------------------
(* The caller *)

Jan10 == TimeStamp(2024, 1, 10, 15)
Jan15Night == TimeStamp(2024, 1, 15, 2)
Jan15 == TimeStamp(2024, 1, 15, 15)
Jan31 == TimeStamp(2024, 1, 31, 15)
Feb01 == TimeStamp(2024, 2, 1, 15)
Mar20 == TimeStamp(2024, 3, 20, 15)
Oct03 == TimeStamp(2024, 10, 3, 15)
Dec31 == TimeStamp(2023, 12, 31, 15)

\* The trades a caller may pass: a plain trade at each of six dates, two
\* trades of size 3 later on one of those days (one of another ticker, whose
\* price times size needs more than MantBits bits), and a trade of size zero.
TradePool ==
    { Trade(ts, 1, FromInt(5), "AAPL") :
        ts \in {Jan10, Jan15Night, Jan31, Feb01, Oct03, Dec31} }
    \cup
    { Trade(Jan15, 3, FromInt(5), "AAPL"),
      Trade(Jan15, 3, FromInt(7), "MSFT"),
      Trade(Mar20, 0, FromInt(7), "MSFT") }

\* The time zones of the host: UTC, and five hours west of it.
TimeZones == {0, -5}

Init ==
    /\ trades = <<>>
    /\ tz \in TimeZones
    /\ pc = "idle"
    /\ aggregationType = "Daily"
    /\ result = <<>>
    /\ displayType = "Daily"
    /\ labels = <<>>
    /\ fetchPc = "idle"
    /\ apiUrl = <<>>
    /\ response = NoResponse
    /\ data = NoData
    /\ fetched = <<>>
    /\ aggregation = "Daily"
    /\ aggregatedTrades = <<>>
    /\ isLoading = FALSE
    /\ error = null
    /\ handlerPc = "idle"
    /\ fetchesInFlight = 0
    /\ effectPending = TRUE
    /\ cells = {}
    /\ cachedTrades = <<>>
    /\ query = <<>>
    /\ queryResult = <<>>
    /\ messages = <<Greeting>>
    /\ message = <<>>
    /\ chatIsLoading = FALSE
    /\ chatPc = "idle"

\* The caller puts one more trade on the list it is going to pass.
AddTrade(t) ==
    /\ pc = "idle"
    /\ Len(trades) < MaxTrades
    /\ trades' = Append(trades, t)
    /\ UNCHANGED <<tz, pc, aggregationType, result>>
    /\ UNCHANGED <<displayVars, fetchVars, dashVars, outerVars>>

\* A call aggregateTrades(trades, g) runs to its end: it returns a bucket
\* list, or throws.
Aggregate(g) ==
    /\ pc = "idle"
    /\ aggregationType' = g
    /\ trades' = tradesAfterCall(trades)
    /\ IF aggregateTradesThrows(trades, g)
       THEN pc' = "threw" /\ UNCHANGED result
       ELSE pc' = "returned" /\ result' = aggregateTrades(trades, g)
    /\ UNCHANGED tz
    /\ UNCHANGED <<displayVars, fetchVars, dashVars, outerVars>>

Next ==
    \/ \E t \in TradePool : AddTrade(t)
    \/ \E g \in AggregationTypes : Aggregate(g)

Spec == Init /\ [][Next]_vars

\* A timeStamp that does not parse: there is no month 13.
BadStamp == TimeStamp(2024, 13, 1, 0)

\* Trades of a caller that does not validate: one with a timeStamp that does
\* not parse, among well-formed ones.
MalformedPool ==
    { Trade(BadStamp, 1, FromInt(5), "AAPL"),
      Trade(Jan10, 1, FromInt(5), "AAPL"),
      Trade(Feb01, 1, FromInt(5), "AAPL"),
      Trade(Jan15, 3, FromInt(7), "MSFT") }

NextMalformed ==
    \/ \E t \in MalformedPool : AddTrade(t)
    \/ \E g \in AggregationTypes : Aggregate(g)

\* The aggregator called with trade records that were not validated.
SpecMalformed == Init /\ [][NextMalformed]_vars

\* Trades that differ in their dates only, on days that meet the borders of
\* the periods: the last day of a month and the first of the next in one
\* calendar week, a day in the sixth week of its month, a night that is
\* another day west of UTC, and months of one and of two digits.
KeyPool ==
    { Trade(ts, 1, FromInt(5), "AAPL") :
        ts \in {Jan15Night, Jan31, Feb01, Mar20, Oct03, Dec31} }

NextKeys ==
    \/ \E t \in KeyPool : AddTrade(t)
    \/ \E g \in AggregationTypes : Aggregate(g)

\* The aggregator called with trades on the borders of the periods.
SpecKeys == Init /\ [][NextKeys]_vars

\* Trades of one month, two of them at the same instant with different
\* prices, and a trade of another month.
OrderPool ==
    { Trade(Jan15, 3, FromInt(5), "AAPL"),
      Trade(Jan15, 3, FromInt(7), "MSFT"),
      Trade(Jan10, 1, FromInt(5), "AAPL"),
      Trade(Jan15Night, 1, FromInt(5), "AAPL"),
      Trade(Feb01, 1, FromInt(5), "AAPL") }

NextOrder ==
    \/ \E t \in OrderPool : AddTrade(t)
    \/ \E g \in AggregationTypes : Aggregate(g)

\* The aggregator called with the same trades in every order.
SpecOrder == Init /\ [][NextOrder]_vars

\* A consumer labels every bucket of the returned list for the granularity
\* g: it stops at the first key formatPeriodForDisplay throws for.
Format(g) ==
    /\ pc = "returned"
    /\ displayType' = g
    /\ IF \E i \in 1..Len(result) : formatPeriodForDisplayThrows(result[i].period, g)
       THEN pc' = "threw" /\ UNCHANGED labels
       ELSE /\ pc' = "formatted"
            /\ labels' = [i \in 1..Len(result) |-> formatPeriodForDisplay(result[i].period, g)]
    /\ UNCHANGED <<trades, tz, aggregationType, result>>
    /\ UNCHANGED <<fetchVars, dashVars, outerVars>>

\* Trades in months of one and of two digits, in two years and three
\* quarters.
DisplayPool ==
    { Trade(ts, 1, FromInt(5), "AAPL") : ts \in {Jan15Night, Mar20, Oct03, Dec31} }

NextDisplay ==
    \/ \E t \in DisplayPool : AddTrade(t)
    \/ \E g \in AggregationTypes : Aggregate(g)
    \/ \E g \in AggregationTypes : Format(g)

\* The aggregator's buckets labelled for display.
SpecDisplay == Init /\ [][NextDisplay]_vars

\* The query parameters a caller passes.
StartTimestamps == {Jan10, Feb01}
MinQuoteSizes == {0, 2}

\* The body of fetchTrades up to await fetch(apiUrl).
EnterFetchTrades(startTimestamp, minQuoteSize) ==
    /\ fetchPc' = "awaitFetch"
    /\ apiUrl' = <<startTimestamp, minQuoteSize>>
    /\ response' = NoResponse
    /\ data' = NoData
    /\ fetched' = <<>>

\* fetchTrades(startTimestamp, minQuoteSize) is called and runs up to
\* await fetch(apiUrl).
CallFetchTrades(startTimestamp, minQuoteSize) ==
    /\ fetchPc \in {"idle", "resolved", "rejected"}
    /\ EnterFetchTrades(startTimestamp, minQuoteSize)
    /\ UNCHANGED <<aggVars, displayVars, dashVars, outerVars>>

\* The promise of fetchTrades settles.
Settle(outcome) ==
    /\ fetchPc' = outcome.state
    /\ fetched' = outcome.value

\* The transport fails: fetch(apiUrl) rejects, and the catch block runs.
FetchRejects ==
    /\ fetchPc = "awaitFetch"
    /\ response' = [kind |-> "networkError", ok |-> FALSE, status |-> 0]
    /\ Settle(catchBlock)
    /\ UNCHANGED <<apiUrl, data, aggVars, displayVars, dashVars, outerVars>>

\* The server answers with a status: a status that is not OK throws the
\* Error of line 29 into the catch block, an OK one goes on to
\* await response.json().
ResponseArrives(status) ==
    /\ fetchPc = "awaitFetch"
    /\ response' = [kind |-> "http", ok |-> status \in 200..299, status |-> status]
    /\ IF status \in 200..299
       THEN fetchPc' = "awaitJson" /\ UNCHANGED fetched
       ELSE Settle(catchBlock)
    /\ UNCHANGED <<apiUrl, data, aggVars, displayVars, dashVars, outerVars>>

\* The body of an OK answer has been read: text that is not JSON makes
\* response.json() reject, a value without map makes data.map throw, and
\* both end in the catch block; an array is mapped and returned.
BodyArrives(body) ==
    /\ fetchPc = "awaitJson"
    /\ data' = body
    /\ IF body.kind = "array"
       THEN Settle(returnValidated(body.items))
       ELSE Settle(catchBlock)
    /\ UNCHANGED <<apiUrl, response, aggVars, displayVars, dashVars, outerVars>>

NextFetch ==
    \/ \E startTimestamp \in StartTimestamps, minQuoteSize \in MinQuoteSizes :
          CallFetchTrades(startTimestamp, minQuoteSize)
    \/ FetchRejects
    \/ \E status \in {200, 404, 500} : ResponseArrives(status)
    \/ \E body \in Bodies : BodyArrives(body)

\* Calls of fetchTrades against a server and a network that may fail.
SpecFetch == Init /\ [][NextFetch]_vars

\* The values of the start date field: a date, and the cleared field.
StartDates == {Jan10, EmptyString}

\* The minimum size of the App, as it is before any input.
InitialMinSize == 0

\* Items the API answers the dashboard with.
DashboardItems == {item \in RawItems : item.id \in 1..2}

DashboardBodies ==
    { [kind |-> "invalid", items |-> <<>>] }
    \cup { [kind |-> "array", items |-> items] :
              items \in UNION { [1..n -> DashboardItems] : n \in 0..MaxItems } }

\* The effect on [trades, aggregation] runs after the render that changed
\* one of them, and React runs it before it handles the next update.
RunEffect ==
    /\ effectPending
    /\ aggregatedTrades' = reaggregate(trades, aggregation)
    /\ effectPending' = FALSE
    /\ UNCHANGED <<aggVars, displayVars, fetchVars, outerVars>>
    /\ UNCHANGED <<aggregation, isLoading, error, handlerPc, fetchesInFlight>>

\* A click on an aggregation button: setAggregation(agg).  Setting the
\* value the state has already does not render, and no effect follows.
SelectAggregation(agg) ==
    /\ ~effectPending
    /\ aggregation' = agg
    /\ effectPending' = (agg # aggregation)
    /\ UNCHANGED <<aggVars, displayVars, fetchVars, outerVars>>
    /\ UNCHANGED <<aggregatedTrades, isLoading, error, handlerPc, fetchesInFlight>>

\* A click on the fetch button: handleFetchTrades runs up to
\* await fetchTrades(...), or to its end when toISOString throws for a
\* start date that is no date.
ClickFetch(startDate) ==
    /\ ~effectPending
    /\ ~FetchButtonDisabled
    /\ IF IsParseable(startDate)
       THEN /\ isLoading' = TRUE
            /\ error' = null
            /\ handlerPc' = "awaitFetchTrades"
            /\ fetchesInFlight' = fetchesInFlight + 1
            /\ EnterFetchTrades(startDate, InitialMinSize)
       ELSE /\ isLoading' = FALSE
            /\ error' = FailedToFetch
            /\ UNCHANGED <<handlerPc, fetchesInFlight, fetchVars>>
    /\ UNCHANGED <<aggVars, displayVars, aggregation, aggregatedTrades, effectPending>>
    /\ UNCHANGED outerVars

\* The promise of fetchTrades has settled and handleFetchTrades runs to
\* its end.
FetchTradesSettles ==
    /\ ~effectPending
    /\ handlerPc = "awaitFetchTrades"
    /\ fetchPc \in {"resolved", "rejected"}
    /\ IF fetchPc = "rejected"
       THEN error' = FailedToFetch /\ UNCHANGED <<trades, effectPending>>
       ELSE LET set == onFetched(fetched, trades)
            IN /\ error' = set.error
               /\ trades' = set.trades
               /\ effectPending' = set.setTrades
    /\ isLoading' = FALSE
    /\ handlerPc' = "idle"
    /\ fetchesInFlight' = fetchesInFlight - 1
    /\ fetchPc' = "idle"
    /\ apiUrl' = <<>>
    /\ response' = NoResponse
    /\ data' = NoData
    /\ fetched' = <<>>
    /\ UNCHANGED <<tz, pc, aggregationType, result, displayVars, aggregation, aggregatedTrades>>
    /\ UNCHANGED outerVars

NextDashboard ==
    \/ RunEffect
    \/ \E agg \in Granularities : SelectAggregation(agg)
    \/ \E startDate \in StartDates : ClickFetch(startDate)
    \/ FetchRejects
    \/ \E status \in {200, 500} : ResponseArrives(status)
    \/ \E body \in DashboardBodies : BodyArrives(body)
    \/ FetchTradesSettles

\* The dashboard under clicks and the answers of the network.
SpecDashboard == Init /\ [][NextDashboard]_vars

\* DashboardUI, given the buckets of the App and a trade list that is not
\* empty, renders <TreeMapChart data={aggregatedTrades} .../>, without
\* rawTrades, and the effect of TreeMapChart draws the leaves.
DrawTreeMap ==
    /\ pc = "returned"
    /\ Len(trades) > 0
    /\ pc' = "drawn"
    /\ cells' = treeMapData(quarterlyData(result, NoRawTrades))
    /\ UNCHANGED <<trades, tz, aggregationType, result>>
    /\ UNCHANGED <<displayVars, fetchVars, dashVars, backendVars, chatVars>>

\* Trades of two symbols in two months of one quarter.
TreeMapPool ==
    { Trade(Jan10, 1, FromInt(5), "AAPL"),
      Trade(Jan15, 3, FromInt(7), "MSFT"),
      Trade(Feb01, 1, FromInt(5), "AAPL") }

NextTreeMap ==
    \/ \E t \in TreeMapPool : AddTrade(t)
    \/ \E g \in Granularities : Aggregate(g)
    \/ DrawTreeMap

\* The tree map drawn from the buckets of each granularity.
SpecTreeMap == Init /\ [][NextTreeMap]_vars

\* The ticks and the sizes of the trades the random source yields, and of
\* the parameters of the queries.
Ticks == 1..2
TradeSizes == {100, 200}
QueryTicks == 1..3
QuoteSizes == {100, 150, 201}

\* Initialize(): the cache is replaced by generated trades, numbered as
\* they are generated and then ordered by Timestamp.
Initialize(generated) ==
    /\ cachedTrades' =
          OrderByTimestamp([i \in 1..Len(generated) |->
                               StockTrade(i, generated[i][1], generated[i][2])])
    /\ query' = <<>>
    /\ queryResult' = <<>>
    /\ UNCHANGED <<aggVars, displayVars, fetchVars, dashVars, chartVars, chatVars>>

\* A request GetTradesAsync(startTimestamp, minQuoteSize) is answered.
Query(startTimestamp, minQuoteSize) ==
    /\ query' = <<startTimestamp, minQuoteSize>>
    /\ queryResult' = GetTradesAsync(cachedTrades, startTimestamp, minQuoteSize)
    /\ UNCHANGED cachedTrades
    /\ UNCHANGED <<aggVars, displayVars, fetchVars, dashVars, chartVars, chatVars>>

NextBackend ==
    \/ \E generated \in UNION { [1..n -> Ticks \X TradeSizes] : n \in 0..MaxCached } :
          Initialize(generated)
    \/ \E startTimestamp \in QueryTicks, minQuoteSize \in QuoteSizes :
          Query(startTimestamp, minQuoteSize)

\* The mock backend under initialisations and queries.
SpecBackend == Init /\ [][NextBackend]_vars

\* Texts the user types.
ChatInputs ==
    { <<>>,
      <<" ">>,
      <<"h", "i">>,
      <<" ", "R", "i", "s", "k">>,
      <<"a", "p", "i", " ", "r", "i", "s", "k">> }

\* Bodies /api/chatBot answers with.
ChatBodies ==
    { [message |-> "Our EMS supports multiple venues.", suggestsConsultation |-> FALSE],
      [message |-> "A demo would show this best.", suggestsConsultation |-> TRUE] }

\* The user edits the input, which is disabled while a reply is pending.
SetMessage(text) ==
    /\ ~chatIsLoading
    /\ message' = text
    /\ UNCHANGED <<messages, chatIsLoading, chatPc>>
    /\ UNCHANGED <<aggVars, displayVars, fetchVars, dashVars, chartVars, backendVars>>

\* The send button or the Enter key: handleSendMessage up to its return
\* or its await of the fetch.  The updates of one event are applied
\* together.
HandleSendMessage ==
    /\ IF EarlyReturn(message, chatIsLoading)
       THEN UNCHANGED chatVars
       ELSE LET userMessageText == trim(message)
                localResponse == generateTradingResponse(userMessageText)
            IN /\ Len(messages) < 1 + 2 * MaxExchanges
               /\ message' = <<>>
               /\ IF localResponse # null
                  THEN /\ messages' = messages \o <<userMessage(userMessageText),
                                                    localMessage(localResponse)>>
                       /\ chatIsLoading' = FALSE
                       /\ chatPc' = "idle"
                  ELSE /\ messages' = Append(messages, userMessage(userMessageText))
                       /\ chatIsLoading' = TRUE
                       /\ chatPc' = "fetch"
    /\ UNCHANGED <<aggVars, displayVars, fetchVars, dashVars, chartVars, backendVars>>

\* The catch and the finally block of handleSendMessage.
ChatCatch ==
    /\ messages' = Append(messages, errorMessage)
    /\ chatIsLoading' = FALSE
    /\ chatPc' = "idle"
    /\ UNCHANGED message

\* The fetch of /api/chatBot rejects.
ChatFetchRejects ==
    /\ chatPc = "fetch"
    /\ ChatCatch
    /\ UNCHANGED <<aggVars, displayVars, fetchVars, dashVars, chartVars, backendVars>>

\* The fetch resolves: a response that is not ok throws.
ChatResponseArrives(ok) ==
    /\ chatPc = "fetch"
    /\ IF ok
       THEN chatPc' = "json" /\ UNCHANGED <<messages, message, chatIsLoading>>
       ELSE ChatCatch
    /\ UNCHANGED <<aggVars, displayVars, fetchVars, dashVars, chartVars, backendVars>>

\* response.json() rejects.
ChatJsonRejects ==
    /\ chatPc = "json"
    /\ ChatCatch
    /\ UNCHANGED <<aggVars, displayVars, fetchVars, dashVars, chartVars, backendVars>>

\* response.json() resolves: the API's answer is appended.
ChatJsonArrives(body) ==
    /\ chatPc = "json"
    /\ messages' = Append(messages, apiMessage(body))
    /\ chatIsLoading' = FALSE
    /\ chatPc' = "idle"
    /\ UNCHANGED message
    /\ UNCHANGED <<aggVars, displayVars, fetchVars, dashVars, chartVars, backendVars>>

\* The pending request of the chat settles.
ChatSettles ==
    \/ ChatFetchRejects
    \/ \E ok \in BOOLEAN : ChatResponseArrives(ok)
    \/ ChatJsonRejects
    \/ \E body \in ChatBodies : ChatJsonArrives(body)

NextChat ==
    \/ \E text \in ChatInputs : SetMessage(text)
    \/ HandleSendMessage
    \/ ChatSettles

SpecChat == Init /\ [][NextChat]_vars

\* A request the browser has sent is answered or fails, and the handler
\* resumes.
SpecChatFair == SpecChat /\ WF_vars(ChatSettles)

----------------------------------------------------------------------------
(* Properties of a returned bucket list *)

Returned == pc = "returned"

\* The period key the call computed for a trade.
KeyOf(t) == getPeriodKey(NewDate(t.timeStamp), aggregationType)

\* The positions of the caller's list whose trade has the given key.
Members(period) == {k \in 1..Len(trades) : KeyOf(trades[k]) = period}

\* The trades of a period in the order the call visits them.
TradesOf(period) == SelectSeq(SortByTime(trades), LAMBDA t : KeyOf(t) = period)

RECURSIVE SumTotalTradeSize(_)
SumTotalTradeSize(buckets) ==
    IF buckets = <<>> THEN 0
    ELSE buckets[1].totalTradeSize + SumTotalTradeSize(Tail(buckets))

RECURSIVE SumTradeCount(_)
SumTradeCount(buckets) ==
    IF buckets = <<>> THEN 0
    ELSE buckets[1].tradeCount + SumTradeCount(Tail(buckets))

RECURSIVE SumOver(_, _)
SumOver(f, S) ==
    IF S = {} THEN 0
    ELSE LET x == CHOOSE y \in S : TRUE IN f[x] + SumOver(f, S \ {x})

\* C1: for a non-empty trade list and each of the four granularities, the
\* totalTradeSize of the returned buckets adds up to the tradeSize of the
\* input trades.
TotalSizePreserved ==
    (Returned /\ Len(trades) > 0 /\ aggregationType \in Granularities)
        => SumTotalTradeSize(result) = SumOver([k \in 1..Len(trades) |-> trades[k].tradeSize],
                                               1..Len(trades))

\* A call that returned several buckets, one of them holding two trades of
\* positive total size.
TotalSizeWitness ==
    /\ Returned
    /\ aggregationType \in Granularities
    /\ Len(result) >= 2
    /\ \E i \in 1..Len(result) : result[i].tradeCount >= 2 /\ result[i].totalTradeSize >= 4

\* C2: for a non-empty trade list and each of the four granularities, the
\* tradeCount of the returned buckets adds up to the length of the input.
TradeCountPreserved ==
    (Returned /\ Len(trades) > 0 /\ aggregationType \in Granularities)
        => SumTradeCount(result) = Len(trades)

\* A call on a full list that returned fewer buckets than trades, but more
\* than one.
TradeCountWitness ==
    /\ Returned
    /\ aggregationType \in Granularities
    /\ Len(trades) = MaxTrades
    /\ Len(result) > 1
    /\ Len(result) < Len(trades)

\* C3: for each of the four granularities the order of the returned buckets
\* is chronological: every trade of an earlier bucket is earlier than every
\* trade of a later bucket.
ChronologicalOrder ==
    (Returned /\ aggregationType \in Granularities)
        => \A i, j \in 1..Len(result) :
              i < j => \A a \in Members(result[i].period), b \in Members(result[j].period) :
                          getTime(trades[a].timeStamp) < getTime(trades[b].timeStamp)

\* C4: the returned list is ascending by period string: each bucket's period
\* compares less than the next one's.
SortedByPeriod ==
    Returned => \A i \in 1..(Len(result) - 1) :
                    localeCompare(result[i].period, result[i + 1].period) < 0

\* A call whose buckets come out in another order than the order in which
\* their keys were first met.
SortedByPeriodWitness ==
    /\ Returned
    /\ Len(result) >= 2
    /\ LET tradesByPeriod == groupTradesByPeriod(SortByTime(trades), 0, aggregationType)
       IN [i \in 1..Len(tradesByPeriod) |-> tradesByPeriod[i].period]
              # [i \in 1..Len(result) |-> result[i].period]

\* C5: no two returned buckets have the same period, and every input trade
\* is counted in exactly the bucket whose period is the trade's key.
PeriodKeyUnique ==
    Returned =>
        /\ \A i, j \in 1..Len(result) : result[i].period = result[j].period => i = j
        /\ \A k \in 1..Len(trades) :
              \E i \in 1..Len(result) : result[i].period = KeyOf(trades[k])
        /\ \A i \in 1..Len(result) :
              result[i].tradeCount = Cardinality(Members(result[i].period))

\* A call that put two trades into one bucket and a third into another.
PeriodKeyWitness ==
    /\ Returned
    /\ Len(result) = 2
    /\ \E i \in 1..2 : result[i].tradeCount = 2

\* C6: averagePrice is the sum of price * tradeSize over the bucket's trades
\* divided by the bucket's totalTradeSize (in the arithmetic of the code,
\* adding in time order), 0 when the totalTradeSize is 0, and never the
\* result of a division by zero.
AveragePriceIsWeighted ==
    Returned =>
        \A i \in 1..Len(result) :
            LET b == result[i]
                ts == TradesOf(b.period)
            IN /\ b.averagePrice.kind = "fin"
               /\ b.totalTradeSize = 0 => b.averagePrice = Zero
               /\ b.totalTradeSize # 0 =>
                     b.averagePrice = FDiv(WeightedPriceSum(ts), FromInt(b.totalTradeSize))

\* A call that returned a bucket of trades of total size 0 and a bucket of
\* two trades of different prices.
AveragePriceWitness ==
    /\ Returned
    /\ \E i \in 1..Len(result) : result[i].tradeCount > 0 /\ result[i].totalTradeSize = 0
    /\ \E i \in 1..Len(result) :
          /\ result[i].tradeCount = 2
          /\ result[i].totalTradeSize > 0
          /\ \E a, b \in Members(result[i].period) : trades[a].price # trades[b].price

\* The whole number n without its factors 2.
RECURSIVE OddPart(_)
OddPart(n) == IF n = 0 \/ n % 2 = 1 THEN n ELSE OddPart(n \div 2)

\* price * size is a floating-point number: the product is not rounded.
ExactProduct(price, size) == BitLen(OddPart(price.m * size)) <= MantBits

\* C7 as claimed: a bucket of a single trade has that trade's price as its
\* averagePrice, whatever the trade's size (zero included).
SingleTradeAverageIsPrice ==
    (Returned /\ aggregationType \in Granularities) =>
        \A i \in 1..Len(result) :
            result[i].tradeCount = 1 =>
                \A k \in Members(result[i].period) : result[i].averagePrice = trades[k].price

\* C7 as amended: a bucket of a single trade of size S > 0 has that trade's
\* price P as its averagePrice when P * S is not rounded; when S = 0 the
\* averagePrice is 0.
SingleTradeAverageExact ==
    (Returned /\ aggregationType \in Granularities) =>
        \A i \in 1..Len(result) :
            result[i].tradeCount = 1 =>
                \A k \in Members(result[i].period) :
                    /\ (trades[k].tradeSize > 0 /\ ExactProduct(trades[k].price, trades[k].tradeSize))
                          => result[i].averagePrice = trades[k].price
                    /\ trades[k].tradeSize = 0 => result[i].averagePrice = Zero

\* A call that returned a bucket of a single trade of size 3.
SingleTradeWitness ==
    /\ Returned
    /\ aggregationType \in Granularities
    /\ \E i \in 1..Len(result) :
          /\ result[i].tradeCount = 1
          /\ \E k \in Members(result[i].period) :
                trades[k].tradeSize = 3 /\ ExactProduct(trades[k].price, 3)

\* C8: symbols has exactly the tickers of the bucket's trades as keys, maps
\* each to the number of the bucket's trades with that ticker, and its
\* counts add up to tradeCount.
SymbolsCountTickers ==
    Returned =>
        \A i \in 1..Len(result) :
            LET b == result[i]
                mem == Members(b.period)
            IN /\ DOMAIN b.symbols = {trades[k].symbol : k \in mem}
               /\ \A s \in DOMAIN b.symbols :
                     b.symbols[s] = Cardinality({k \in mem : trades[k].symbol = s})
               /\ SumOver(b.symbols, DOMAIN b.symbols) = b.tradeCount

\* A call that returned a bucket with two trades of one ticker and one of
\* another.
SymbolsWitness ==
    /\ Returned
    /\ \E i \in 1..Len(result) :
          /\ DOMAIN result[i].symbols = {"AAPL", "MSFT"}
          /\ result[i].symbols["AAPL"] = 2
          /\ result[i].symbols["MSFT"] = 1

\* C9: a call with an empty trade list returns an empty bucket list, for
\* every granularity.
EmptyInEmptyOut ==
    (Returned /\ Len(trades) = 0) => result = <<>>

\* A call with no trades returned, for a granularity other than the initial
\* one.
EmptyWitness ==
    Returned /\ trades = <<>> /\ aggregationType = "Quarterly"

\* C10: a call with a granularity outside the four returns the buckets of a
\* Daily aggregation of the same trades.
UnknownGranularityIsDaily ==
    (Returned /\ aggregationType \notin Granularities)
        => result = aggregateTrades(trades, "Daily")

----------------------------------------------------------------------------
(* Period keys *)

\* The local calendar date of the k-th trade of the caller's list.
Local(k) == LocalDate(getTime(trades[k].timeStamp), tz)

\* The quarter of a 1-based month.
QuarterOf(month) ==
    IF month <= 3 THEN 1 ELSE IF month <= 6 THEN 2 ELSE IF month <= 9 THEN 3 ELSE 4

\* A number below 100 in two digits, and a year in four.
TwoDigits(n) == <<Digits[(n \div 10) + 1], Digits[(n % 10) + 1]>>
FourDigits(n) == TwoDigits(n \div 100) \o TwoDigits(n % 100)

\* The number of the Sunday-to-Saturday week the k-th trade's local day lies
\* in, counting weeks from the one that holds 1970-01-01 (a Thursday).
CalendarWeek(k) == (((getTime(trades[k].timeStamp) + tz) \div 24) + 4) \div 7

\* The same for the first day of the k-th trade's month.
CalendarWeekOfFirst(k) ==
    (((getTime(trades[k].timeStamp) + tz) \div 24) - (Local(k).day - 1) + 4) \div 7

\* C12: under Quarterly, trades share a bucket exactly when they have the
\* same calendar year and the same quarter q (1..4), and the bucket's period
\* is YYYY-Q{q}.
QuarterlyBuckets ==
    (Returned /\ aggregationType = "Quarterly") =>
        /\ \A k \in 1..Len(trades) :
              \E i \in 1..Len(result) :
                 /\ result[i].period =
                       FourDigits(Local(k).year) \o <<"-", "Q", Digits[QuarterOf(Local(k).month) + 1]>>
                 /\ result[i].tradeCount =
                       Cardinality({j \in 1..Len(trades) :
                                       /\ Local(j).year = Local(k).year
                                       /\ QuarterOf(Local(j).month) = QuarterOf(Local(k).month)})
        /\ Len(result) =
              Cardinality({<<Local(k).year, QuarterOf(Local(k).month)>> : k \in 1..Len(trades)})

\* A Quarterly call with trades in January and March of one year, which
\* form the single bucket 2024-Q1 of two trades, and a trade of another
\* quarter.
QuarterlyWitness ==
    /\ Returned
    /\ aggregationType = "Quarterly"
    /\ Len(result) = 2
    /\ result[1].period = <<"2", "0", "2", "4", "-", "Q", "1">>
    /\ result[1].tradeCount = 2
    /\ \E a, b \in 1..Len(trades) :
          /\ Local(a).year = 2024 /\ Local(a).month = 1
          /\ Local(b).year = 2024 /\ Local(b).month = 3

\* C13: under Daily, trades share a bucket exactly when they have the same
\* calendar year, month and day, with period YYYY-MM-DD; under Monthly
\* exactly when they have the same year and month, with period YYYY-MM;
\* month and day are in two digits.
DailyMonthlyBuckets ==
    (Returned /\ aggregationType \in {"Daily", "Monthly"}) =>
        LET daily == aggregationType = "Daily"
            Same(j, k) == /\ Local(j).year = Local(k).year
                          /\ Local(j).month = Local(k).month
                          /\ daily => Local(j).day = Local(k).day
        IN /\ \A k \in 1..Len(trades) :
                 \E i \in 1..Len(result) :
                    /\ result[i].period =
                          FourDigits(Local(k).year) \o <<"-">> \o TwoDigits(Local(k).month)
                              \o (IF daily THEN <<"-">> \o TwoDigits(Local(k).day) ELSE <<>>)
                    /\ result[i].tradeCount = Cardinality({j \in 1..Len(trades) : Same(j, k)})
           /\ Len(result) =
                 Cardinality({<<Local(k).year, Local(k).month, IF daily THEN Local(k).day ELSE 0>> :
                                 k \in 1..Len(trades)})

\* A Monthly call with two trades on different days of a one-digit month,
\* and a trade in another month.
DailyMonthlyWitness ==
    /\ Returned
    /\ aggregationType = "Monthly"
    /\ Len(result) = 2
    /\ \E a, b \in 1..Len(trades) :
          /\ Local(a).month = Local(b).month
          /\ Local(a).month < 10
          /\ Local(a).day # Local(b).day

\* C14: under Weekly, the week number n of a trade is the number of its
\* Sunday-to-Saturday week within its month (1..6), the period is
\* YYYY-W{n}-{month}, and trades share a bucket exactly when they have the
\* same year, the same month and the same calendar week: trades of one
\* calendar week in different months are in different buckets.
WeeklyBuckets ==
    (Returned /\ aggregationType = "Weekly") =>
        LET n(k) == CalendarWeek(k) - CalendarWeekOfFirst(k) + 1
            Same(j, k) == /\ Local(j).year = Local(k).year
                          /\ Local(j).month = Local(k).month
                          /\ CalendarWeek(j) = CalendarWeek(k)
        IN /\ \A k \in 1..Len(trades) :
                 /\ n(k) \in 1..6
                 /\ \E i \in 1..Len(result) :
                       /\ result[i].period =
                             FourDigits(Local(k).year) \o <<"-", "W", Digits[n(k) + 1], "-">>
                                 \o (IF Local(k).month < 10 THEN <<Digits[Local(k).month + 1]>>
                                     ELSE TwoDigits(Local(k).month))
                       /\ result[i].tradeCount = Cardinality({j \in 1..Len(trades) : Same(j, k)})
           /\ Len(result) =
                 Cardinality({<<Local(k).year, Local(k).month, CalendarWeek(k)>> :
                                 k \in 1..Len(trades)})

\* A Weekly call with two trades of one calendar week in different months,
\* and a trade in the sixth week of its month.
WeeklyWitness ==
    /\ Returned
    /\ aggregationType = "Weekly"
    /\ Len(result) = 3
    /\ \E a, b \in 1..Len(trades) :
          CalendarWeek(a) = CalendarWeek(b) /\ Local(a).month # Local(b).month
    /\ \E k \in 1..Len(trades) : CalendarWeek(k) - CalendarWeekOfFirst(k) + 1 = 6

----------------------------------------------------------------------------
(* Effects on the caller's list *)

\* C16: a call of aggregateTrades, whether it returns or throws, leaves the
\* caller's trade list with the same records in the same order.
InputUntouched ==
    [][(pc = "idle" /\ pc' # "idle") => trades' = trades]_vars

\* A call has returned for a list that is not in time order, the list a
\* sort in place would have rearranged.
InputUntouchedWitness ==
    /\ Returned
    /\ \E k \in 1..(Len(trades) - 1) :
          getTime(trades[k].timeStamp) > getTime(trades[k + 1].timeStamp)

----------------------------------------------------------------------------
(* Order of the input list *)

\* The list s with its k-th and (k+1)-th elements exchanged.
Swap(s, k) ==
    [i \in 1..Len(s) |-> IF i = k THEN s[k + 1] ELSE IF i = k + 1 THEN s[k] ELSE s[i]]

\* A bucket list without its averages.
WithoutAverage(buckets) ==
    [i \in 1..Len(buckets) |->
        [period |-> buckets[i].period,
         totalTradeSize |-> buckets[i].totalTradeSize,
         tradeCount |-> buckets[i].tradeCount,
         symbols |-> buckets[i].symbols]]

\* No two trades of the list are at the same instant.
DistinctTimes(s) ==
    \A i, j \in 1..Len(s) :
        i # j => getTime(s[i].timeStamp) # getTime(s[j].timeStamp)

\* C17 as stated: the returned buckets are the same for every order of the
\* input list, averages included.  Every list within the bound is reached,
\* and exchanges of neighbours generate every permutation, so the statement
\* for one exchange at every reachable list is the statement for every
\* permutation.
OrderIndependent ==
    Returned =>
        \A k \in 1..(Len(trades) - 1) :
            aggregateTrades(Swap(trades, k), aggregationType) = result

\* C17, amended: periods, totals, counts, symbol maps and the order of the
\* buckets are the same for every order of the input list, and the averages
\* are the same too when no two trades are at the same instant.
OrderIndependentButAverage ==
    Returned =>
        \A k \in 1..(Len(trades) - 1) :
            LET other == aggregateTrades(Swap(trades, k), aggregationType)
            IN /\ WithoutAverage(other) = WithoutAverage(result)
               /\ DistinctTimes(trades) => other = result

\* A call has returned one bucket for three trades at different instants
\* and with different prices, passed out of time order.
OrderIndependentWitness ==
    /\ Returned
    /\ Len(trades) = 3
    /\ Len(result) = 1
    /\ DistinctTimes(trades)
    /\ trades # SortByTime(trades)
    /\ \E i, j \in 1..Len(trades) : trades[i].price # trades[j].price

----------------------------------------------------------------------------
(* Display labels *)

Formatted == pc = "formatted"

\* The years of the trades.
Years == 2023..2024

\* The English abbreviation of a 1-based month.
EnglishMonth(m) ==
    CASE m = 1 -> <<"J", "a", "n">> [] m = 2 -> <<"F", "e", "b">>
      [] m = 3 -> <<"M", "a", "r">> [] m = 4 -> <<"A", "p", "r">>
      [] m = 5 -> <<"M", "a", "y">> [] m = 6 -> <<"J", "u", "n">>
      [] m = 7 -> <<"J", "u", "l">> [] m = 8 -> <<"A", "u", "g">>
      [] m = 9 -> <<"S", "e", "p">> [] m = 10 -> <<"O", "c", "t">>
      [] m = 11 -> <<"N", "o", "v">> [] m = 12 -> <<"D", "e", "c">>

\* sub occurs in s.
Contains(s, sub) ==
    \E a \in 1..(Len(s) - Len(sub) + 1) : SubSeq(s, a, a + Len(sub) - 1) = sub

\* C18: every period of a Monthly aggregation is a key YYYY-MM, and its
\* label for Monthly is the English abbreviation of month MM, a space and
\* YYYY.
MonthlyLabel ==
    (Formatted /\ aggregationType = "Monthly" /\ displayType = "Monthly") =>
        /\ Len(labels) = Len(result)
        /\ \A i \in 1..Len(result) :
              \E y \in Years, m \in 1..12 :
                 /\ result[i].period = FourDigits(y) \o <<"-">> \o TwoDigits(m)
                 /\ labels[i] = EnglishMonth(m) \o <<" ">> \o FourDigits(y)

\* The buckets 2024-03 and 2024-10 have been labelled Mar 2024 and
\* Oct 2024.
MonthlyLabelWitness ==
    /\ Formatted
    /\ aggregationType = "Monthly"
    /\ displayType = "Monthly"
    /\ \E i, j \in 1..Len(labels) :
          /\ result[i].period = <<"2", "0", "2", "4", "-", "0", "3">>
          /\ labels[i] = <<"M", "a", "r", " ", "2", "0", "2", "4">>
          /\ result[j].period = <<"2", "0", "2", "4", "-", "1", "0">>
          /\ labels[j] = <<"O", "c", "t", " ", "2", "0", "2", "4">>

\* C19: every period of a Quarterly aggregation is a key YYYY-Q{q}, and
\* its label for Quarterly contains YYYY and Q{q}; the label of any key for
\* Daily and for an unrecognized granularity is the key itself.
QuarterlyLabel ==
    /\ (Formatted /\ aggregationType = "Quarterly" /\ displayType = "Quarterly") =>
          /\ Len(labels) = Len(result)
          /\ \A i \in 1..Len(result) :
                \E y \in Years, q \in 1..4 :
                   /\ result[i].period = FourDigits(y) \o <<"-", "Q", Digits[q + 1]>>
                   /\ Contains(labels[i], FourDigits(y))
                   /\ Contains(labels[i], <<"Q", Digits[q + 1]>>)
    /\ (Formatted /\ displayType \notin {"Weekly", "Monthly", "Quarterly"}) =>
          labels = [i \in 1..Len(result) |-> result[i].period]

\* The buckets of two quarters have been labelled, 2024-Q1 as 2024 Q1.
QuarterlyLabelWitness ==
    /\ Formatted
    /\ aggregationType = "Quarterly"
    /\ displayType = "Quarterly"
    /\ Len(labels) >= 2
    /\ \E i \in 1..Len(labels) :
          /\ result[i].period = <<"2", "0", "2", "4", "-", "Q", "1">>
          /\ labels[i] = <<"2", "0", "2", "4", " ", "Q", "1">>

----------------------------------------------------------------------------
(* Malformed records *)

\* The positions of the caller's list whose timeStamp does not parse.
Unparseable == {k \in 1..Len(trades) : ~IsParseable(trades[k].timeStamp)}

\* C11 as claimed: a call with a trade whose timeStamp does not parse ends
\* with an exception, for every granularity, and never returns buckets.
UnparseableTimestampThrows ==
    (pc # "idle" /\ Unparseable # {}) => pc = "threw"

\* C11 as amended: with a trade whose timeStamp does not parse, the call
\* throws only for a granularity outside the four; for each of the four it
\* returns, and the unparseable trades are counted in a bucket whose period
\* is the key format with NaN for every number.
UnparseableTimestampBucketed ==
    (pc # "idle" /\ Unparseable # {}) =>
        IF aggregationType \in Granularities
        THEN /\ pc = "returned"
             /\ \E i \in 1..Len(result) :
                   /\ result[i].period =
                         CASE aggregationType = "Daily" ->
                                 <<"N", "a", "N", "-", "N", "a", "N", "-", "N", "a", "N">>
                           [] aggregationType = "Weekly" ->
                                 <<"N", "a", "N", "-", "W", "N", "a", "N", "-", "N", "a", "N">>
                           [] aggregationType = "Monthly" ->
                                 <<"N", "a", "N", "-", "N", "a", "N">>
                           [] aggregationType = "Quarterly" ->
                                 <<"N", "a", "N", "-", "Q", "N", "a", "N">>
                   /\ result[i].tradeCount = Cardinality(Unparseable)
        ELSE pc = "threw"

\* A call that returned a bucket for unparseable trades next to a bucket of
\* well-formed ones.
UnparseableWitness ==
    /\ Returned
    /\ Cardinality(Unparseable) = 2
    /\ Len(result) = 2

----------------------------------------------------------------------------
(* The trade data source *)

\* The promise of fetchTrades has settled.
Settled == fetchPc \in {"resolved", "rejected"}

\* The transport failed or the server answered with a status that is not OK.
FetchFailed ==
    \/ response.kind = "networkError"
    \/ response.kind = "http" /\ ~response.ok

\* C20: fetchTrades returns the list of trade records, or rejects when the
\* transport fails or the server answers with a status that is not OK: a
\* failed fetch never settles as a successful result.
FailedFetchRejects ==
    (Settled /\ FetchFailed) => fetchPc = "rejected"

\* The names of the time of a trade, in the order fetchTrades tries them.
Casings == <<"timestamp", "Timestamp", "timeStamp">>

\* fetchTrades has resolved with the records of a JSON array.
Normalised == fetchPc = "resolved" /\ data.kind = "array"

\* The records are one for each item, in the order of the items, with id,
\* tradeSize, price and symbol copied.
CopiedInOrder ==
    /\ Len(fetched) = Len(data.items)
    /\ \A i \in 1..Len(fetched) :
          /\ fetched[i].id = data.items[i].id
          /\ fetched[i].tradeSize = data.items[i].tradeSize
          /\ fetched[i].price = data.items[i].price
          /\ fetched[i].symbol = data.items[i].symbol

\* C21 as stated: the records are one for each item, in order, with the
\* other fields copied, and timeStamp is the value of the first of
\* timestamp, Timestamp, timeStamp that the item has.
NormalisedFirstPresent ==
    Normalised =>
        /\ CopiedInOrder
        /\ \A i \in 1..Len(fetched) :
              \E k \in 1..Len(Casings) :
                 /\ Casings[k] \in DOMAIN data.items[i]
                 /\ \A j \in 1..(k - 1) : Casings[j] \notin DOMAIN data.items[i]
                 /\ fetched[i].timeStamp = data.items[i][Casings[k]]

\* C21, amended: timeStamp is the value of the first of timestamp,
\* Timestamp, timeStamp that the item has with a value other than the empty
\* string.
NormalisedFirstTruthy ==
    Normalised =>
        /\ CopiedInOrder
        /\ \A i \in 1..Len(fetched) :
              \E k \in 1..Len(Casings) :
                 /\ Truthy(data.items[i], Casings[k])
                 /\ \A j \in 1..(k - 1) : ~Truthy(data.items[i], Casings[j])
                 /\ fetched[i].timeStamp = data.items[i][Casings[k]]

\* fetchTrades has resolved with two records, one of an item that has both
\* timestamp and timeStamp, one of an item whose timestamp is empty and
\* whose Timestamp is not.
NormalisedWitness ==
    /\ Normalised
    /\ Len(fetched) = 2
    /\ {"timestamp", "timeStamp"} \subseteq DOMAIN data.items[1]
    /\ fetched[1].timeStamp = data.items[1].timestamp
    /\ {"timestamp", "Timestamp"} \subseteq DOMAIN data.items[2]
    /\ data.items[2].timestamp = EmptyString
    /\ fetched[2].timeStamp = data.items[2].Timestamp

----------------------------------------------------------------------------
(* The dashboard *)

\* C22: once the pending effect has run, aggregatedTrades is
\* aggregateTrades(trades, aggregation), and is empty when trades is.
AggregatedTradesCurrent ==
    ~effectPending =>
        /\ trades = <<>> => aggregatedTrades = <<>>
        /\ trades # <<>> =>
              /\ ~aggregateTradesThrows(trades, aggregation)
              /\ aggregatedTrades = aggregateTrades(trades, aggregation)

\* Trades have been fetched, another granularity has been selected, and
\* the effect has run.
AggregatedTradesWitness ==
    /\ ~effectPending
    /\ Len(trades) = 2
    /\ aggregation = "Monthly"
    /\ Len(aggregatedTrades) = 1

\* handleFetchTrades is between its call of fetchTrades and its end.
FetchInFlight == handlerPc = "awaitFetchTrades"

\* C25: isLoading is true exactly while a fetch that was started has not
\* completed, whatever its outcome; at most one fetch is in flight; and
\* isLoading is never set together with an error.
LoadingWhileInFlight ==
    /\ isLoading <=> FetchInFlight
    /\ FetchInFlight <=> fetchesInFlight = 1
    /\ fetchesInFlight \in 0..1
    /\ ~(isLoading /\ error # null)

\* A second fetch is in flight, its answer awaited, while the trades of
\* the first are held.
LoadingWitness ==
    /\ isLoading
    /\ fetchPc = "awaitJson"
    /\ trades # <<>>

\* A fetch started with the cleared date field has ended by the exception
\* of toISOString.
LoadingExceptionWitness ==
    /\ ~isLoading
    /\ error = FailedToFetch

\* C26: when handleFetchTrades completes with zero trades, of an empty
\* answer or of a failed fetch, error becomes the message that no trades
\* were found, and trades and aggregatedTrades stay as they were; when it
\* completes with trades, they replace the held trades and error stays
\* null.
FetchOutcomeApplied ==
    [][(FetchInFlight /\ handlerPc' = "idle") =>
          IF fetched = <<>>
          THEN /\ error' = NoTradesFound
               /\ trades' = trades
               /\ aggregatedTrades' = aggregatedTrades
          ELSE /\ trades' = fetched
               /\ error = null
               /\ error' = null]_vars

\* A fetch that yielded no trades has completed while trades of an earlier
\* fetch were held: the message is shown and the trades are still there.
FetchOutcomeWitness ==
    /\ handlerPc = "idle"
    /\ error = NoTradesFound
    /\ trades # <<>>
    /\ aggregatedTrades # <<>>

----------------------------------------------------------------------------
(* The tree map *)

\* C23: whatever granularity the buckets passed to the tree map were built
\* for, every leaf drawn belongs to a period of the Quarterly aggregation
\* of the trades.
TreeMapCellsQuarterly ==
    pc = "drawn" =>
        \A c \in cells :
            \E i \in 1..Len(aggregateTrades(trades, "Quarterly")) :
                aggregateTrades(trades, "Quarterly")[i].period = c.period

----------------------------------------------------------------------------
(* The mock backend *)

\* A query has been answered.
Queried == query # <<>>

\* The cached trades the parameters of the last query select.
Selected ==
    { k \in 1..Len(cachedTrades) :
        /\ cachedTrades[k].Timestamp >= query[1]
        /\ cachedTrades[k].TradeSize >= query[2] }

\* The answer holds each selected trade once and nothing else, in
\* ascending order of Timestamp.
AnswerIsSelection ==
    Queried =>
        /\ Len(queryResult) = Cardinality(Selected)
        /\ {queryResult[i] : i \in 1..Len(queryResult)} = {cachedTrades[k] : k \in Selected}
        /\ \A i, j \in 1..Len(queryResult) :
              i < j => queryResult[i].Timestamp <= queryResult[j].Timestamp

\* C24: the query returns exactly the cached trades with Timestamp >=
\* startTimestamp and TradeSize >= minQuoteSize, in ascending order of
\* Timestamp; it leaves the cache as it was; and a query repeated with the
\* same parameters returns the same list.
QueryFiltersCache ==
    /\ []AnswerIsSelection
    /\ [][query' # <<>> =>
            /\ cachedTrades' = cachedTrades
            /\ query' = query => queryResult' = queryResult]_vars

\* A query has selected two of three cached trades, which have the same
\* Timestamp, and left out one by its size.
QueryWitness ==
    /\ Queried
    /\ Len(cachedTrades) = 3
    /\ Len(queryResult) = 2
    /\ queryResult[1].Timestamp = queryResult[2].Timestamp
    /\ \E k \in 1..Len(cachedTrades) :
          cachedTrades[k].Timestamp >= query[1] /\ cachedTrades[k].TradeSize < query[2]

----------------------------------------------------------------------------
(* Nesting of the granularities *)

\* The next coarser granularity.
Coarser(g) ==
    CASE g = "Daily" -> "Weekly"
      [] g = "Weekly" -> "Monthly"
      [] g = "Monthly" -> "Quarterly"

\* C27: two trades that share a bucket of a granularity share a bucket of
\* the next coarser one, Daily to Weekly to Monthly to Quarterly, and the
\* coarser aggregation has no more buckets.
GranularitiesNest ==
    (Returned /\ aggregationType \in {"Daily", "Weekly", "Monthly"}) =>
        /\ \A a, b \in 1..Len(trades) :
              KeyOf(trades[a]) = KeyOf(trades[b]) =>
                 getPeriodKey(NewDate(trades[a].timeStamp), Coarser(aggregationType))
                     = getPeriodKey(NewDate(trades[b].timeStamp), Coarser(aggregationType))
        /\ Len(aggregateTrades(trades, Coarser(aggregationType))) <= Len(result)

\* Three trades in two Monthly buckets, two of them on different days of
\* one month, which are one Quarterly bucket.
GranularitiesNestWitness ==
    /\ Returned
    /\ aggregationType = "Monthly"
    /\ Len(trades) = 3
    /\ Len(result) = 2
    /\ Len(aggregateTrades(trades, "Quarterly")) = 1
    /\ \E a, b \in 1..Len(trades) :
          trades[a] # trades[b] /\ KeyOf(trades[a]) = KeyOf(trades[b])

----------------------------------------------------------------------------
(* The chat widget *)

\* The assistant messages that can answer a user text: its canned reply
\* when it has one, else an answer of the API or the apology.
RepliesTo(userMessageText) ==
    IF generateTradingResponse(userMessageText) # null
    THEN {localMessage(generateTradingResponse(userMessageText))}
    ELSE {apiMessage(body) : body \in ChatBodies} \cup {errorMessage}

\* After the greeting the conversation is a run of exchanges: a user
\* message holding a trimmed text that is not blank, then one assistant
\* message that replies to it; the last user message is without its reply
\* exactly while isLoading.
ExchangesWellFormed ==
    /\ messages[1] = Greeting
    /\ \A i \in 2..Len(messages) :
          IF i % 2 = 0
          THEN /\ messages[i].role = "user"
               /\ messages[i].content # <<>>
               /\ trim(messages[i].content) = messages[i].content
          ELSE /\ messages[i].role = "assistant"
               /\ \E reply \in RepliesTo(messages[i - 1].content) : messages[i] = reply
    /\ chatIsLoading <=> (Len(messages) % 2 = 0)

\* A step keeps the messages it finds, in their places, and puts a user
\* message after them only when the input is not blank and no reply is
\* pending.
MessagesOnlyAppended ==
    /\ Len(messages') >= Len(messages)
    /\ SubSeq(messages', 1, Len(messages)) = messages
    /\ (Len(messages') > Len(messages) /\ messages'[Len(messages) + 1].role = "user") =>
          (trim(message) # <<>> /\ ~chatIsLoading)

====
